---- MODULE Spec2Model ----
(***************************************************************************)
(* Model of the sdy-insert-explicit-reshards pass                          *)
(* (shardy/dialect/sdy/transforms/export/insert_explicit_reshards.cc).     *)
(*                                                                         *)
(* The state is one function body (values with a sharding, operations in  *)
(* program order), the position of the pass driver in its walk, and the   *)
(* working state of the majority-vote resolver for the operation being    *)
(* processed.                                                              *)
(***************************************************************************)
EXTENDS Integers, Sequences, FiniteSets, TLC

(***************************************************************************)
(* Mesh and axis references.  The mesh is the one of the lit test:        *)
(*   sdy.mesh @mesh = <["x"=4, "y"=2]>                                     *)
(* An axis reference is a full axis or a sub-axis "name":(pre)size.  A    *)
(* full axis is written with pre = 1 and size = the size of the mesh axis *)
(* (a sub-axis never covers the whole axis).                               *)
(***************************************************************************)
XSize == 4
YSize == 2

MeshAxisSize(name) == IF name = "x" THEN XSize ELSE YSize

AxisX  == [name |-> "x", pre |-> 1, size |-> XSize]
AxisX1 == [name |-> "x", pre |-> 1, size |-> 2]
AxisX2 == [name |-> "x", pre |-> 2, size |-> 2]
AxisY  == [name |-> "y", pre |-> 1, size |-> YSize]

AxisRefs == {AxisX, AxisX1, AxisX2, AxisY}

\* AxisRefAttr::getSubAxisInfo: absent on a full axis.
isSubAxis(a) == a.size # MeshAxisSize(a.name)

\* AxisRefAttr::getSize(mesh)
AxisRef_getSize(a) == a.size

\* AxisRefAttr::overlaps: same mesh axis and intersecting shard ranges.
AxisRef_overlaps(a, b) ==
    /\ a.name = b.name
    /\ a.pre < b.pre * b.size
    /\ b.pre < a.pre * a.size

\* AxisRefAttr::prefixOf: `a` addresses a leading part of `b` (or equals it).
AxisRef_prefixOf(a, b) ==
    /\ a.name = b.name
    /\ a.pre = b.pre
    /\ a.size <= b.size

\* AxisRefAttr::strictPrefixOf
AxisRef_strictPrefixOf(a, b) == AxisRef_prefixOf(a, b) /\ a # b

\* AxisRefAttr::operator< : by name, a sub-axis before the full axis, then by
\* (pre-size, size).
AxisRef_less(a, b) ==
    IF a.name # b.name THEN (a.name = "x" /\ b.name = "y")
    ELSE IF ~isSubAxis(a) THEN FALSE
    ELSE IF ~isSubAxis(b) THEN TRUE
    ELSE \/ a.pre < b.pre
         \/ a.pre = b.pre /\ a.size < b.size

(***************************************************************************)
(* struct AxesWithTail.  The pair (axisRefs, tailAxisRef) is modelled by  *)
(* the sequence axisRefs \o <<tailAxisRef>>; the empty sequence is the    *)
(* default-constructed (unsharded) value.                                  *)
(***************************************************************************)
AxesWithTail_empty(axes) == Len(axes) = 0

AxesWithTail_size(axes) == Len(axes)

\* The tail element and the prefix view of a non-empty AxesWithTail.
tailAxisRef(axes) == axes[Len(axes)]
axisRefsOf(axes) == SubSeq(axes, 1, Len(axes) - 1)

\* AxesWithTail::operator<
AxesWithTail_less(lhs, rhs) ==
    IF Len(lhs) # Len(rhs) THEN Len(lhs) < Len(rhs)
    ELSE \E i \in 1..Len(lhs) :
            /\ lhs[i] # rhs[i]
            /\ \A j \in 1..(i - 1) : lhs[j] = rhs[j]
            /\ AxisRef_less(lhs[i], rhs[i])

\* A faulty AxesWithTail::overlaps(AxisRefAttr): axes overlap when they lie on
\* the same mesh axis, disjoint sub-axes included.
AxesWithTail_sharesMeshAxis(axes, axisRef) ==
    \E i \in 1..Len(axes) : axes[i].name = axisRef.name

\* AxesWithTail::overlaps(AxisRefAttr)
AxesWithTail_overlapsAxis(axes, axisRef) ==
    IF AxesWithTail_empty(axes) THEN FALSE
    ELSE \/ AxisRef_overlaps(axisRef, tailAxisRef(axes))
         \/ \E i \in 1..(Len(axes) - 1) : AxisRef_overlaps(axisRef, axes[i])

\* AxesWithTail::overlaps(const AxesWithTail&)
AxesWithTail_overlaps(axes, rhs) ==
    IF AxesWithTail_empty(axes) THEN FALSE
    ELSE \/ AxesWithTail_overlapsAxis(rhs, tailAxisRef(axes))
         \/ \E i \in 1..(Len(axes) - 1) : AxesWithTail_overlapsAxis(rhs, axes[i])

\* A faulty strictPrefixOf: at equal sizes the tails are compared with prefixOf,
\* so that an AxesWithTail counts as a strict prefix of itself.
prefixOrEqualOf(axes, rhs) ==
    IF AxesWithTail_empty(axes) THEN ~AxesWithTail_empty(rhs)
    ELSE IF Len(axes) > Len(rhs) THEN FALSE
    ELSE IF \E i \in 1..(Len(axes) - 1) : axes[i] # rhs[i] THEN FALSE
    ELSE AxisRef_prefixOf(tailAxisRef(axes), rhs[Len(axes)])

\* A faulty strictPrefixOf: against a longer rhs the tail is compared with
\* equality, so that a sub-axis prefix of the axis at its position does not
\* count.
strictPrefixOfWholeAxes(axes, rhs) ==
    IF AxesWithTail_empty(axes) THEN ~AxesWithTail_empty(rhs)
    ELSE IF AxesWithTail_size(axes) > AxesWithTail_size(rhs) THEN FALSE
    ELSE IF \E i \in 1..(Len(axes) - 1) : axes[i] # rhs[i] THEN FALSE
    ELSE IF AxesWithTail_size(axes) = AxesWithTail_size(rhs)
         THEN AxisRef_strictPrefixOf(tailAxisRef(axes), tailAxisRef(rhs))
         ELSE tailAxisRef(axes) = rhs[Len(axes)]

\* AxesWithTail::strictPrefixOf
strictPrefixOf(axes, rhs) ==
    IF AxesWithTail_empty(axes) THEN ~AxesWithTail_empty(rhs)
    ELSE IF AxesWithTail_size(axes) > AxesWithTail_size(rhs) THEN FALSE
    ELSE IF \E i \in 1..(Len(axes) - 1) : axes[i] # rhs[i] THEN FALSE
    ELSE IF AxesWithTail_size(axes) = AxesWithTail_size(rhs)
         THEN AxisRef_strictPrefixOf(tailAxisRef(axes), tailAxisRef(rhs))
         ELSE AxisRef_prefixOf(tailAxisRef(axes), rhs[Len(axes)])

\* AxesWithTail::getShardingSize(mesh)
RECURSIVE getShardingSize(_)
getShardingSize(axes) ==
    IF AxesWithTail_empty(axes) THEN 1
    ELSE getShardingSize(axisRefsOf(axes)) * AxisRef_getSize(tailAxisRef(axes))

\* A faulty getShardingSize(mesh, prefix): the prefix is not excluded.
getShardingSizeIncludingPrefix(axes, prefix) == getShardingSize(axes)

\* AxesWithTail::getShardingSize(mesh, prefix)
getShardingSizeExcluding(axes, prefix) ==
    getShardingSize(axes) \div getShardingSize(prefix)

(***************************************************************************)
(* struct FactorAxesPair and struct FactorAxesCandidate.                   *)
(***************************************************************************)
kEmptyFactorIndex == -1

\* FactorAxesPair(): the default-constructed (empty) pair.
EmptyFactorAxesPair == [factorIndex |-> kEmptyFactorIndex, axes |-> <<>>]

FactorAxesPair_empty(p) == p.factorIndex = kEmptyFactorIndex

\* FactorAxesPair::operator<
FactorAxesPair_less(lhs, rhs) ==
    IF lhs.factorIndex # rhs.factorIndex
    THEN lhs.factorIndex < rhs.factorIndex
    ELSE AxesWithTail_less(lhs.axes, rhs.axes)

\* A faulty FactorAxesPair::overlaps: only equal axes count as overlapping.
FactorAxesPair_sameAxes(lhs, rhs) == lhs.axes = rhs.axes

\* FactorAxesPair::overlaps
FactorAxesPair_overlaps(lhs, rhs) == AxesWithTail_overlaps(lhs.axes, rhs.axes)

\* FactorAxesCandidate(): the default-constructed candidate.
EmptyFactorAxesCandidate ==
    [factorAxes |-> EmptyFactorAxesPair, count |-> 0, shardingSize |-> 0]

\* A faulty FactorAxesCandidate::operator<: no tie-break on the FactorAxesPair,
\* so that candidates of equal count and sharding size are equivalent.
FactorAxesCandidate_lessWithoutTieBreak(lhs, rhs) ==
    IF lhs.count # rhs.count THEN lhs.count < rhs.count
    ELSE IF lhs.shardingSize # rhs.shardingSize
    THEN lhs.shardingSize < rhs.shardingSize
    ELSE FALSE

\* FactorAxesCandidate::operator<
FactorAxesCandidate_less(lhs, rhs) ==
    IF lhs.count # rhs.count THEN lhs.count < rhs.count
    ELSE IF lhs.shardingSize # rhs.shardingSize
    THEN lhs.shardingSize < rhs.shardingSize
    ELSE FactorAxesPair_less(lhs.factorAxes, rhs.factorAxes)

\* A faulty use of std::max: its result is dropped and the first argument kept.
stdMaxDropped(a, b) == a

\* std::max(a, b): b when a < b, otherwise a.
stdMax(a, b) == IF FactorAxesCandidate_less(a, b) THEN b ELSE a

(***************************************************************************)
(* Tensor shardings, sharding rules and the sharding projection.          *)
(*                                                                         *)
(* A tensor sharding names a mesh and gives one axis list per dimension;  *)
(* NullSharding is the absent attribute.  All dimension shardings are     *)
(* closed.  The tensors of the lit test have rank 2.                       *)
(***************************************************************************)
NullSharding == [meshName |-> "", dims |-> <<>>]

\* isFullyReplicated(TensorShardingAttr): an absent sharding counts as replicated.
isFullyReplicated(sharding) ==
    \/ sharding = NullSharding
    \/ \A d \in DOMAIN sharding.dims : sharding.dims[d] = <<>>

\* TensorShardingAttr::getFullyClosedLike
getFullyClosedLike(sharding) ==
    [meshName |-> sharding.meshName,
     dims |-> [d \in DOMAIN sharding.dims |-> <<>>]]

(***************************************************************************)
(* Sharding rules.  Factors are numbered from 0 (i = 0, j = 1, k = 2).    *)
(* Every tensor dimension maps to exactly one factor.                      *)
(*   dot    : ([i, k], [k, j]) -> ([i, j])                                 *)
(*   negate : ([i, j]) -> ([i, j])            (pointwise)                  *)
(* Operations of any other kind (reshard, custom, return) have no rule.   *)
(***************************************************************************)
NoRule == [operandMappings |-> <<>>, resultMappings |-> <<>>, numFactors |-> 0]

DotRule ==
    [operandMappings |-> << <<0, 2>>, <<2, 1>> >>,
     resultMappings |-> << <<0, 1>> >>,
     numFactors |-> 3]

PointwiseRule ==
    [operandMappings |-> << <<0, 1>> >>,
     resultMappings |-> << <<0, 1>> >>,
     numFactors |-> 2]

\* getOrCreateShardingRule(op): the rule of the operation kind, or NoRule.
getOrCreateShardingRule(kind) ==
    IF kind = "dot" THEN DotRule
    ELSE IF kind = "negate" THEN PointwiseRule
    ELSE NoRule

\* Number of leading axes of `axes` whose sizes fit a factor of size `factorSize`.
RECURSIVE fittingAxes(_, _)
fittingAxes(axes, factorSize) ==
    IF axes = <<>> THEN 0
    ELSE IF AxisRef_getSize(Head(axes)) > factorSize THEN 0
    ELSE 1 + fittingAxes(Tail(axes), factorSize \div AxisRef_getSize(Head(axes)))

\* The TensorFactorShardings of one tensor: a map from the factors of the
\* tensor's dimensions to [axisRefs, overflowAxes].  The axes of a dimension go
\* to its factor as long as they fit the factor's size; the rest overflow.
buildTensorFactorShardings(mapping, sharding, factorSizes) ==
    [f \in {mapping[d] : d \in DOMAIN mapping} |->
        LET d == CHOOSE e \in DOMAIN mapping : mapping[e] = f
            axes == IF sharding = NullSharding THEN <<>> ELSE sharding.dims[d]
            n == fittingAxes(axes, factorSizes[f + 1])
        IN [axisRefs |-> SubSeq(axes, 1, n),
            overflowAxes |-> SubSeq(axes, n + 1, Len(axes))]]

\* ShardingProjection::build(op, shardingRule, mesh)
ShardingProjection_build(rule, operandShardings, resultShardings, factorSizes) ==
    [operands |-> [i \in DOMAIN rule.operandMappings |->
                     buildTensorFactorShardings(rule.operandMappings[i],
                                                operandShardings[i], factorSizes)],
     results |-> [i \in DOMAIN rule.resultMappings |->
                     buildTensorFactorShardings(rule.resultMappings[i],
                                                resultShardings[i], factorSizes)]]

\* llvm::concat(projection.getOperands(), projection.getResults())
tensorsOf(projection) == projection.operands \o projection.results

\* TensorFactorShardings::createTensorShardingAttr: per dimension, the axes of
\* the dimension's factor followed by its overflow axes.
createTensorShardingAttr(tensorFactorShardings, mapping, meshName) ==
    [meshName |-> meshName,
     dims |-> [d \in DOMAIN mapping |->
                 tensorFactorShardings[mapping[d]].axisRefs
                     \o tensorFactorShardings[mapping[d]].overflowAxes]]

\* TensorFactorShardings::updateShardingAxes: TRUE iff the tensor has the
\* factor and its axes or overflow axes differ from the new ones.
tensorChanges(tensorFactorShardings, factorIndex, newAxes) ==
    /\ factorIndex \in DOMAIN tensorFactorShardings
    /\ \/ tensorFactorShardings[factorIndex].axisRefs # newAxes
       \/ tensorFactorShardings[factorIndex].overflowAxes # <<>>

updateTensor(tensorFactorShardings, factorIndex, newAxes) ==
    IF factorIndex \in DOMAIN tensorFactorShardings
    THEN [tensorFactorShardings EXCEPT
            ![factorIndex] = [axisRefs |-> newAxes, overflowAxes |-> <<>>]]
    ELSE tensorFactorShardings

\* ShardingProjection::updateSharding(factorIndex, axes, overflowAxes = {}):
\* the updated projection and the operands and results that changed.
updateSharding(projection, factorIndex, newAxes) ==
    [projection |->
        [operands |-> [i \in DOMAIN projection.operands |->
                         updateTensor(projection.operands[i], factorIndex, newAxes)],
         results |-> [i \in DOMAIN projection.results |->
                         updateTensor(projection.results[i], factorIndex, newAxes)]],
     updateOperands |-> {i \in DOMAIN projection.operands :
                           tensorChanges(projection.operands[i], factorIndex, newAxes)},
     updateResults |-> {i \in DOMAIN projection.results :
                           tensorChanges(projection.results[i], factorIndex, newAxes)}]

(***************************************************************************)
(* The compatibility fast path.                                            *)
(***************************************************************************)
\* A faulty hasOverflowAxes: only the operands are inspected.
hasOverflowAxesOnOperands(projection) ==
    \E t \in DOMAIN projection.operands :
        \E f \in DOMAIN projection.operands[t] :
            projection.operands[t][f].overflowAxes # <<>>

\* hasOverflowAxes
hasOverflowAxes(projection) ==
    \E t \in DOMAIN tensorsOf(projection) :
        \E f \in DOMAIN tensorsOf(projection)[t] :
            tensorsOf(projection)[t][f].overflowAxes # <<>>

\* A faulty hasCompatibleFactorShardings: a factor's common sharding starts out
\* as the empty axis list instead of the first one seen, so only unsharded
\* factors are compatible.
hasUnshardedFactorsOnly(projection) ==
    \A t \in DOMAIN tensorsOf(projection) :
        \A f \in DOMAIN tensorsOf(projection)[t] :
            tensorsOf(projection)[t][f].axisRefs = <<>>

\* hasCompatibleFactorShardings: the first tensor (operands, then results) that
\* has a factor fixes the factor's common sharding; every later tensor that has
\* the factor must carry the same axis list.
hasCompatibleFactorShardings(projection) ==
    LET tensors == tensorsOf(projection)
        firstWith(f) == CHOOSE t \in DOMAIN tensors :
                            /\ f \in DOMAIN tensors[t]
                            /\ \A u \in 1..(t - 1) : f \notin DOMAIN tensors[u]
    IN \A t \in DOMAIN tensors :
          \A f \in DOMAIN tensors[t] :
              tensors[t][f].axisRefs = tensors[firstWith(f)][f].axisRefs

(***************************************************************************)
(* Candidate discovery: findFactorAxesCandidates.                          *)
(***************************************************************************)
\* The FactorAxesCandidatesMap is a function from FactorAxesPair keys to
\* FactorAxesCandidate values.
EmptyCandidatesMap == [key \in {} |-> EmptyFactorAxesCandidate]

\* A faulty incrementFactorAxesCounts: a key that is already present keeps its
\* count.
incrementFactorAxesCountsOnce(factorAxesCounts, factorAxes) ==
    IF factorAxes \in DOMAIN factorAxesCounts
    THEN factorAxesCounts
    ELSE factorAxesCounts @@
         (factorAxes :> [factorAxes |-> factorAxes,
                         count |-> 1,
                         shardingSize |-> getShardingSize(factorAxes.axes)])

\* incrementFactorAxesCounts
incrementFactorAxesCounts(factorAxesCounts, factorAxes) ==
    IF factorAxes \in DOMAIN factorAxesCounts
    THEN [factorAxesCounts EXCEPT ![factorAxes].count = @ + 1]
    ELSE factorAxesCounts @@
         (factorAxes :> [factorAxes |-> factorAxes,
                         count |-> 1,
                         shardingSize |-> getShardingSize(factorAxes.axes)])

\* A faulty first loop: per factor, only the whole axis lists of the tensors,
\* without the lists obtained by drop_back.
axesSetsOfAssignments(projection, numFactors) ==
    LET tensors == tensorsOf(projection)
    IN [f \in 0..(numFactors - 1) |->
          {tensors[t][f].axisRefs :
              t \in {u \in DOMAIN tensors :
                        f \in DOMAIN tensors[u] /\ tensors[u][f].axisRefs # <<>>}}]

\* First loop of findFactorAxesCandidates: per factor, every non-empty leading
\* part (drop_back) of every tensor's axis list for the factor.
axesSetsOf(projection, numFactors) ==
    LET tensors == tensorsOf(projection)
    IN [f \in 0..(numFactors - 1) |->
          UNION {{SubSeq(tensors[t][f].axisRefs, 1, n) :
                     n \in 1..Len(tensors[t][f].axisRefs)} :
                 t \in {u \in DOMAIN tensors : f \in DOMAIN tensors[u]}}]

\* "Increment counts for all its strict prefixes": the loop over axesSets[f].
RECURSIVE incrementStrictPrefixes(_, _, _, _)
incrementStrictPrefixes(factorAxesCounts, factorIndex, axes, axesSet) ==
    IF axesSet = {} THEN factorAxesCounts
    ELSE LET prefix == CHOOSE a \in axesSet : TRUE
             next == IF strictPrefixOf(prefix, axes)
                     THEN incrementFactorAxesCounts(
                              factorAxesCounts,
                              [factorIndex |-> factorIndex, axes |-> prefix])
                     ELSE factorAxesCounts
         IN incrementStrictPrefixes(next, factorIndex, axes, axesSet \ {prefix})

\* Second loop of findFactorAxesCandidates over the (tensor, factor) entries.
RECURSIVE countFactorAxes(_, _, _, _)
countFactorAxes(factorAxesCounts, entries, tensors, axesSets) ==
    IF entries = {} THEN factorAxesCounts
    ELSE LET e == CHOOSE x \in entries : TRUE
             factorIndex == e[2]
             axes == tensors[e[1]][factorIndex].axisRefs
             next ==
                 IF axes = <<>> THEN factorAxesCounts
                 ELSE incrementStrictPrefixes(
                          incrementFactorAxesCounts(
                              factorAxesCounts,
                              [factorIndex |-> factorIndex, axes |-> axes]),
                          factorIndex, axes, axesSets[factorIndex])
         IN countFactorAxes(next, entries \ {e}, tensors, axesSets)

\* findFactorAxesCandidates: the candidates, as the set of values of the map
\* (the returned vector lists them in the map's iteration order).
findFactorAxesCandidates(projection, numFactors) ==
    LET tensors == tensorsOf(projection)
        entries == {<<t, f>> \in (DOMAIN tensors) \X (0..(numFactors - 1)) :
                       f \in DOMAIN tensors[t]}
        counts == countFactorAxes(EmptyCandidatesMap, entries, tensors,
                                  axesSetsOf(projection, numFactors))
    IN {counts[key] : key \in DOMAIN counts}

(***************************************************************************)
(* The majority-vote resolver: findCommonAxesUsingMajorityVoteHeuristic.  *)
(***************************************************************************)
\* factorAxesCandidates[candidateIndex] = factorAxesCandidates.back();
\* factorAxesCandidates.pop_back();
swapRemove(list, candidateIndex) ==
    [j \in 1..(Len(list) - 1) |->
        IF j = candidateIndex THEN list[Len(list)] ELSE list[j]]

\* The inner while loop: one scan of the candidate list (indices from 1).
\* Yields the surviving list and the round's nextBestFactorAxes.
RECURSIVE scanCandidates(_, _, _, _)
scanCandidates(list, candidateIndex, bestFactorAxes, nextBestFactorAxes) ==
    IF candidateIndex > Len(list)
    THEN [list |-> list, nextBest |-> nextBestFactorAxes]
    ELSE LET candidate == list[candidateIndex] IN
         IF candidate.factorAxes.factorIndex = bestFactorAxes.factorIndex
         THEN IF ~strictPrefixOf(bestFactorAxes.axes, candidate.factorAxes.axes)
              THEN scanCandidates(swapRemove(list, candidateIndex), candidateIndex,
                                  bestFactorAxes, nextBestFactorAxes)
              ELSE LET updated ==
                           [candidate EXCEPT !.shardingSize =
                               getShardingSizeExcluding(candidate.factorAxes.axes,
                                                        bestFactorAxes.axes)]
                   IN scanCandidates([list EXCEPT ![candidateIndex] = updated],
                                     candidateIndex + 1, bestFactorAxes,
                                     stdMax(nextBestFactorAxes, updated))
         ELSE IF FactorAxesPair_overlaps(candidate.factorAxes, bestFactorAxes)
         THEN scanCandidates(swapRemove(list, candidateIndex), candidateIndex,
                             bestFactorAxes, nextBestFactorAxes)
         ELSE scanCandidates(list, candidateIndex + 1, bestFactorAxes,
                             stdMax(nextBestFactorAxes, candidate))

\* A faulty assignTo: the axes are written to the first entry of the array
\* whatever the factor of the pair.
assignToFirstFactor(bestFactorAxes, axesPerFactor) ==
    IF FactorAxesPair_empty(bestFactorAxes) THEN axesPerFactor
    ELSE [axesPerFactor EXCEPT ![0] = bestFactorAxes.axes]

\* FactorAxesPair::assignTo, guarded by `if (!bestFactorAxes.empty())`.
assignTo(bestFactorAxes, axesPerFactor) ==
    IF FactorAxesPair_empty(bestFactorAxes) THEN axesPerFactor
    ELSE [axesPerFactor EXCEPT ![bestFactorAxes.factorIndex] = bestFactorAxes.axes]

\* One iteration of the outer while loop on the candidate list `list`.
resolverRound(list, bestFactorAxes, factorAxisRefs) ==
    LET scan == scanCandidates(list, 1, bestFactorAxes, EmptyFactorAxesCandidate)
    IN [factorAxisRefs |-> assignTo(bestFactorAxes, factorAxisRefs),
        list |-> scan.list,
        bestFactorAxes |-> scan.nextBest.factorAxes]

\* All orders in which a set of candidates can be laid out in the vector.
RECURSIVE orderingsOf(_)
orderingsOf(set) ==
    IF set = {} THEN {<<>>}
    ELSE UNION {{<<c>> \o rest : rest \in orderingsOf(set \ {c})} : c \in set}

rangeOf(list) == {list[i] : i \in DOMAIN list}

\* The whole loop run on one fixed layout: the candidates sorted ascending by
\* their FactorAxesPair.  Used as the reference the resolver's result is
\* compared against.
RECURSIVE sortedByPair(_)
sortedByPair(set) ==
    IF set = {} THEN <<>>
    ELSE LET least == CHOOSE c \in set :
                         \A d \in set \ {c} :
                             FactorAxesPair_less(c.factorAxes, d.factorAxes)
         IN <<least>> \o sortedByPair(set \ {least})

RECURSIVE resolveFrom(_, _, _)
resolveFrom(list, bestFactorAxes, factorAxisRefs) ==
    IF list = <<>> THEN factorAxisRefs
    ELSE LET round == resolverRound(list, bestFactorAxes, factorAxisRefs)
         IN resolveFrom(round.list, round.bestFactorAxes, round.factorAxisRefs)

unshardedFactors(numFactors) == [f \in 0..(numFactors - 1) |-> <<>>]

(***************************************************************************)
(* The function body.                                                      *)
(*                                                                         *)
(* nodes maps a value id to [kind, operands, sharding, factorSizes]; the  *)
(* kinds are "arg" (a function argument), "dot", "negate", "custom" (an   *)
(* operation without a sharding rule), "reshard" and "return".  body is   *)
(* the list of operation ids in program order, the return last.            *)
(***************************************************************************)
VARIABLES
    nodes,                  \* value id -> node
    body,                   \* operation ids in program order
    funcResultShardings,    \* declared result shardings of the function
    pc,                     \* "walk", "resolve" or "done"
    run,                    \* 1 for the first run of the pass, 2 for the second
    todo,                   \* operations the walk has still to visit
    cur,                    \* operation being resolved (0 when none)
    projection,             \* ShardingProjection of cur
    factorAxesCandidates,   \* the live candidates (layout chosen per scan)
    bestFactorAxes,         \* FactorAxesPair bestFactorAxes
    factorAxisRefs,         \* SmallVector<AxesWithTail> factorAxisRefs
    opState,                \* driver state of every operation of this run
    before,                 \* [nodes, body] when the visit of `last`/`cur` began
    last,                   \* operation whose visit ended last (0 when none)
    initialCandidates,      \* result of findFactorAxesCandidates for cur
    commits,                \* commit rounds of the current resolver run
    resolvedOf,             \* operation id -> assignment the resolver returned
    firstRun                \* [nodes, body] at the end of the first run

vars == <<nodes, body, funcResultShardings, pc, run, todo, cur, projection,
          factorAxesCandidates, bestFactorAxes, factorAxisRefs, opState,
          before, last, initialCandidates, commits, resolvedOf, firstRun>>

resolverVars == <<projection, factorAxesCandidates, bestFactorAxes,
                  factorAxisRefs, initialCandidates, commits>>

\* getSharding(Value)
getSharding(ns, value) == ns[value].sharding

operandShardingsOf(ns, op) ==
    [i \in DOMAIN ns[op].operands |-> getSharding(ns, ns[op].operands[i])]

resultShardingsOf(ns, op) == <<getSharding(ns, op)>>

\* getCommonMeshName: the one mesh all present shardings are bound to, or ""
\* when there is no sharding or more than one mesh.
getCommonMeshName(operandShardings, resultShardings) ==
    LET all == operandShardings \o resultShardings
        names == {all[i].meshName : i \in {j \in DOMAIN all : all[j] # NullSharding}}
    IN IF Cardinality(names) = 1 THEN CHOOSE n \in names : TRUE ELSE ""

projectionOf(ns, op) ==
    ShardingProjection_build(getOrCreateShardingRule(ns[op].kind),
                             operandShardingsOf(ns, op),
                             resultShardingsOf(ns, op),
                             ns[op].factorSizes)

newValueId(ns) == 1 + Cardinality(DOMAIN ns)

ReshardNode(operand, sharding) ==
    [kind |-> "reshard", operands |-> <<operand>>, sharding |-> sharding,
     factorSizes |-> <<>>]

positionOf(ops, op) == CHOOSE i \in DOMAIN ops : ops[i] = op

\* rewriter.create with the insertion point before `op`.
insertBefore(ops, op, new) ==
    LET i == positionOf(ops, op)
    IN SubSeq(ops, 1, i - 1) \o <<new>> \o SubSeq(ops, i, Len(ops))

\* rewriter.create with the insertion point after `op`.
insertAfter(ops, op, new) ==
    LET i == positionOf(ops, op)
    IN SubSeq(ops, 1, i) \o <<new>> \o SubSeq(ops, i + 1, Len(ops))

\* rewriter.replaceAllUsesExcept(value, newValue, exceptedUser)
replaceAllUsesExcept(ns, value, newValue, exceptedUser) ==
    [v \in DOMAIN ns |->
        IF v = exceptedUser THEN ns[v]
        ELSE [ns[v] EXCEPT !.operands =
                 [i \in DOMAIN ns[v].operands |->
                     IF ns[v].operands[i] = value THEN newValue
                     ELSE ns[v].operands[i]]]]

(***************************************************************************)
(* insertExplicitReshards.                                                 *)
(***************************************************************************)
\* A faulty first loop: every user of the operand value is redirected to the
\* reshard, not only the operand slot of `op`.
RECURSIVE reshardOperandsReplacingAllUses(_, _, _, _, _, _, _)
reshardOperandsReplacingAllUses(ns, ops, op, proj, updateOperands, rule, meshName) ==
    IF updateOperands = {} THEN [nodes |-> ns, body |-> ops]
    ELSE LET operandIndex == CHOOSE i \in updateOperands :
                                 \A j \in updateOperands : i <= j
             operand == ns[op].operands[operandIndex]
             newTensorSharding ==
                 createTensorShardingAttr(proj.operands[operandIndex],
                                          rule.operandMappings[operandIndex],
                                          meshName)
             reshardOp == newValueId(ns)
             ns1 == ns @@ (reshardOp :> ReshardNode(operand, newTensorSharding))
             ns2 == replaceAllUsesExcept(ns1, operand, reshardOp, reshardOp)
         IN reshardOperandsReplacingAllUses(
                ns2, insertBefore(ops, op, reshardOp), op, proj,
                updateOperands \ {operandIndex}, rule, meshName)

\* A faulty first loop: no reshard is created; the new sharding is set on the
\* operand value itself.
RECURSIVE reshardOperandsInPlace(_, _, _, _, _, _, _)
reshardOperandsInPlace(ns, ops, op, proj, updateOperands, rule, meshName) ==
    IF updateOperands = {} THEN [nodes |-> ns, body |-> ops]
    ELSE LET operandIndex == CHOOSE i \in updateOperands :
                                 \A j \in updateOperands : i <= j
             operand == ns[op].operands[operandIndex]
             newTensorSharding ==
                 createTensorShardingAttr(proj.operands[operandIndex],
                                          rule.operandMappings[operandIndex],
                                          meshName)
             ns1 == [ns EXCEPT ![operand].sharding = newTensorSharding]
         IN reshardOperandsInPlace(ns1, ops, op, proj,
                                   updateOperands \ {operandIndex}, rule,
                                   meshName)

\* First loop: one reshard before `op` per changed operand, in index order.
RECURSIVE reshardOperands(_, _, _, _, _, _, _)
reshardOperands(ns, ops, op, proj, updateOperands, rule, meshName) ==
    IF updateOperands = {} THEN [nodes |-> ns, body |-> ops]
    ELSE LET operandIndex == CHOOSE i \in updateOperands :
                                 \A j \in updateOperands : i <= j
             operand == ns[op].operands[operandIndex]
             newTensorSharding ==
                 createTensorShardingAttr(proj.operands[operandIndex],
                                          rule.operandMappings[operandIndex],
                                          meshName)
             reshardOp == newValueId(ns)
             ns1 == ns @@ (reshardOp :> ReshardNode(operand, newTensorSharding))
             ns2 == [ns1 EXCEPT ![op].operands[operandIndex] = reshardOp]
         IN reshardOperands(ns2, insertBefore(ops, op, reshardOp), op, proj,
                            updateOperands \ {operandIndex}, rule, meshName)

\* A faulty second loop: the reshard is inserted and the users are redirected,
\* but setSharding on the result is left out.
reshardResultsKeepingSharding(ns, ops, op, proj, updateResults, rule, meshName) ==
    IF updateResults = {} THEN [nodes |-> ns, body |-> ops]
    ELSE LET reshardOp == newValueId(ns)
             ns1 == ns @@ (reshardOp :> ReshardNode(op, getSharding(ns, op)))
             ns2 == replaceAllUsesExcept(ns1, op, reshardOp, reshardOp)
         IN [nodes |-> ns2, body |-> insertAfter(ops, op, reshardOp)]

\* A faulty second loop: setSharding runs before the reshard is created, so the
\* reshard carries the result's new sharding.
reshardResultsAfterSetSharding(ns, ops, op, proj, updateResults, rule, meshName) ==
    IF updateResults = {} THEN [nodes |-> ns, body |-> ops]
    ELSE LET newTensorSharding ==
                 createTensorShardingAttr(proj.results[1],
                                          rule.resultMappings[1], meshName)
             reshardOp == newValueId(ns)
             ns1 == [ns EXCEPT ![op].sharding = newTensorSharding]
             ns2 == ns1 @@ (reshardOp :> ReshardNode(op, getSharding(ns1, op)))
             ns3 == replaceAllUsesExcept(ns2, op, reshardOp, reshardOp)
         IN [nodes |-> ns3, body |-> insertAfter(ops, op, reshardOp)]

\* Second loop: one reshard after `op` per changed result (an operation has
\* one result here); the reshard carries the result's sharding, every other
\* user is redirected to it and the result takes the projection's sharding.
reshardResults(ns, ops, op, proj, updateResults, rule, meshName) ==
    IF updateResults = {} THEN [nodes |-> ns, body |-> ops]
    ELSE LET newTensorSharding ==
                 createTensorShardingAttr(proj.results[1],
                                          rule.resultMappings[1], meshName)
             reshardOp == newValueId(ns)
             ns1 == ns @@ (reshardOp :> ReshardNode(op, getSharding(ns, op)))
             ns2 == replaceAllUsesExcept(ns1, op, reshardOp, reshardOp)
             ns3 == [ns2 EXCEPT ![op].sharding = newTensorSharding]
         IN [nodes |-> ns3, body |-> insertAfter(ops, op, reshardOp)]

insertExplicitReshards(ns, ops, op, proj, update, rule, meshName) ==
    LET g == reshardOperands(ns, ops, op, proj, update.updateOperands,
                             rule, meshName)
    IN reshardResults(g.nodes, g.body, op, proj, update.updateResults,
                      rule, meshName)

\* The loop of runOnOperation over findCommonAxes(...): updateSharding for
\* every factor in index order, or-ing the change bits.
RECURSIVE updateAllFactors(_, _, _, _)
updateAllFactors(proj, axesPerFactor, index, update) ==
    IF index \notin DOMAIN axesPerFactor
    THEN [projection |-> proj, updateOperands |-> update.updateOperands,
          updateResults |-> update.updateResults]
    ELSE LET u == updateSharding(proj, index, axesPerFactor[index])
         IN updateAllFactors(
                u.projection, axesPerFactor, index + 1,
                [updateOperands |-> update.updateOperands \cup u.updateOperands,
                 updateResults |-> update.updateResults \cup u.updateResults])

\* UpdateTensorShardings(numOperands, numResults): no bit set.
NoUpdates == [updateOperands |-> {}, updateResults |-> {}]

(***************************************************************************)
(* The return branch of runOnOperation.                                    *)
(***************************************************************************)
\* A faulty return branch: the test that both shardings are fully replicated
\* is left out.
RECURSIVE reshardReturnOperandsUnlessEqual(_, _, _, _, _)
reshardReturnOperandsUnlessEqual(ns, ops, op, index, funcResults) ==
    IF index > Len(ns[op].operands) THEN [nodes |-> ns, body |-> ops]
    ELSE LET operand == ns[op].operands[index]
             funcResultSharding == funcResults[index]
             operandSharding == getSharding(ns, operand)
         IN IF funcResultSharding # operandSharding
            THEN LET reshardOp == newValueId(ns)
                     target == IF funcResultSharding # NullSharding
                               THEN funcResultSharding
                               ELSE getFullyClosedLike(operandSharding)
                     ns1 == ns @@ (reshardOp :> ReshardNode(operand, target))
                     ns2 == [ns1 EXCEPT ![op].operands[index] = reshardOp]
                 IN reshardReturnOperandsUnlessEqual(
                        ns2, insertBefore(ops, op, reshardOp), op, index + 1,
                        funcResults)
            ELSE reshardReturnOperandsUnlessEqual(ns, ops, op, index + 1,
                                                  funcResults)

\* The return branch: one reshard before the return per operand whose sharding
\* differs from the function result sharding, unless both are replicated.
RECURSIVE reshardReturnOperands(_, _, _, _, _)
reshardReturnOperands(ns, ops, op, index, funcResults) ==
    IF index > Len(ns[op].operands) THEN [nodes |-> ns, body |-> ops]
    ELSE LET operand == ns[op].operands[index]
             funcResultSharding == funcResults[index]
             operandSharding == getSharding(ns, operand)
         IN IF isFullyReplicated(operandSharding)
                /\ isFullyReplicated(funcResultSharding)
            THEN reshardReturnOperands(ns, ops, op, index + 1, funcResults)
            ELSE IF funcResultSharding # operandSharding
            THEN LET reshardOp == newValueId(ns)
                     target == IF funcResultSharding # NullSharding
                               THEN funcResultSharding
                               ELSE getFullyClosedLike(operandSharding)
                     ns1 == ns @@ (reshardOp :> ReshardNode(operand, target))
                     ns2 == [ns1 EXCEPT ![op].operands[index] = reshardOp]
                 IN reshardReturnOperands(ns2, insertBefore(ops, op, reshardOp),
                                          op, index + 1, funcResults)
            ELSE reshardReturnOperands(ns, ops, op, index + 1, funcResults)

(***************************************************************************)
(* Input functions.                                                        *)
(*                                                                         *)
(* A function has one main operation (dot, negate or custom) on the       *)
(* function arguments, optionally a negate that produces the main         *)
(* operation's last operand, optionally a negate that uses its result or  *)
(* its last operand, and the return of the main operation's result or of   *)
(* the negate using it.  The shardings of the main operation's tensors range *)
(* over all valid shardings within the bounds; the functions of the lit   *)
(* test are inputs as well.                                                *)
(***************************************************************************)
MaxAxesPerDim == 2      \* axis references per tensor dimension
MaxAxes == 3            \* axis references on all tensors of the main operation
MaxCommits == 8         \* the commit rounds that are counted

\* Valid dimension shardings: no two axes of the list overlap, and no sub-axis
\* is followed by the sub-axis that continues it (the two would be merged).
DimShardings ==
    {axes \in UNION {[1..n -> AxisRefs] : n \in 0..MaxAxesPerDim} :
        /\ \A i, j \in DOMAIN axes :
              i # j => ~AxisRef_overlaps(axes[i], axes[j])
        /\ \A i \in DOMAIN axes :
              (i + 1) \in DOMAIN axes =>
                  ~(/\ axes[i].name = axes[i + 1].name
                    /\ axes[i].pre * axes[i].size = axes[i + 1].pre)}

Sharding(dim0, dim1) == [meshName |-> "mesh", dims |-> <<dim0, dim1>>]

TensorShardings ==
    {Sharding(dim0, dim1) : dim0, dim1 \in DimShardings} \
    {Sharding(dim0, dim1) : <<dim0, dim1>> \in
        {pair \in DimShardings \X DimShardings :
            \E i \in DOMAIN pair[1] : \E j \in DOMAIN pair[2] :
                AxisRef_overlaps(pair[1][i], pair[2][j])}}

numAxes(sharding) == Len(sharding.dims[1]) + Len(sharding.dims[2])

Replicated == Sharding(<<>>, <<>>)

Kinds == {"dot", "negate", "custom"}

\* Factor sizes {i=8, j=16, k=32} of the lit test; the small variant has i=2.
factorSizesOf(kind, smallFactor) ==
    LET iSize == IF smallFactor THEN 2 ELSE 8
    IN IF kind = "dot" THEN <<iSize, 16, 32>> ELSE <<iSize, 16>>

Shape(producer, user, funcResult, otherMesh, smallFactor) ==
    [producer |-> producer, user |-> user, funcResult |-> funcResult,
     otherMesh |-> otherMesh, smallFactor |-> smallFactor]

Shapes ==
    {Shape(FALSE, "none", "same", FALSE, FALSE),
     Shape(FALSE, "none", "null", FALSE, FALSE),
     Shape(FALSE, "none", "arg", FALSE, FALSE),
     Shape(FALSE, "same", "same", FALSE, FALSE),
     Shape(FALSE, "replicated", "same", FALSE, FALSE),
     Shape(FALSE, "operand", "same", FALSE, FALSE),
     Shape(TRUE, "none", "same", FALSE, FALSE),
     Shape(FALSE, "none", "same", TRUE, FALSE),
     Shape(FALSE, "none", "same", FALSE, TRUE)}

Input(kind, a0, a1, r, shape) ==
    [kind |-> kind, a0 |-> a0, a1 |-> a1, r |-> r, shape |-> shape]

\* The functions of insert_explicit_reshards.mlir (all on stablehlo.dot).
LitDot(a0, a1, r, funcResult) ==
    Input("dot", a0, a1, r, Shape(FALSE, "none", funcResult, FALSE, FALSE))

LitTests ==
    LET x == <<AxisX>>
        y == <<AxisY>>
        x1 == <<AxisX1>>
        x2 == <<AxisX2>>
        e == <<>>
    IN {LitDot(Sharding(x, y), Sharding(y, e), Sharding(x, e), "same"),
        LitDot(Sharding(x, y), Sharding(y, e), Sharding(x, e), "null"),
        Input("dot", Sharding(e, y), Sharding(y, e), Sharding(y, e),
              Shape(FALSE, "none", "arg", FALSE, FALSE)),
        LitDot(Sharding(x1, y), Sharding(y, e), Sharding(e, x2), "same"),
        LitDot(Sharding(e, y), Sharding(y, x), Sharding(e, x), "same"),
        LitDot(Sharding(e, y), Sharding(y, e), Sharding(e, e), "null"),
        LitDot(Sharding(e, e), Sharding(e, e), Sharding(e, e), "null"),
        LitDot(Sharding(x, e), Sharding(e, y), Sharding(x, y), "same"),
        LitDot(Sharding(x, y), Sharding(y, x), Sharding(e, e), "null"),
        LitDot(Sharding(x, y), Sharding(y, x), Sharding(x, e), "same"),
        LitDot(Sharding(x, y), Sharding(y, x), Sharding(e, x), "same"),
        LitDot(Sharding(x, y), Sharding(y, e), Sharding(e, e), "null"),
        LitDot(Sharding(e, y), Sharding(y, e), Sharding(x, e), "same"),
        LitDot(Sharding(e, y), Sharding(y, e), Sharding(y, e), "same"),
        LitDot(Sharding(e, y), Sharding(y, e), Sharding(e, y), "same"),
        LitDot(Sharding(x, y), Sharding(y, e), Sharding(y, e), "same"),
        LitDot(Sharding(x, y), Sharding(y, e), Sharding(e, x), "same"),
        LitDot(Sharding(x, e), Sharding(e, y), Sharding(y, x), "same"),
        LitDot(Sharding(x2, y), Sharding(y, e), Sharding(e, x), "same"),
        Input("dot", Sharding(e, y), Sharding(y, x), Sharding(x, e),
              Shape(TRUE, "same", "same", FALSE, FALSE)),
        Input("dot", Sharding(e, y), Sharding(y, x), Sharding(x, e),
              Shape(FALSE, "same", "same", FALSE, FALSE)),
        LitDot(Sharding(e, y), Sharding(y, x), Sharding(x, e), "same")}

\* The shardings with at most `n` axis references.
shardingsUpTo(n) == {t \in TensorShardings : numAxes(t) <= n}

OpNode(kind, operands, sharding, factorSizes) ==
    [kind |-> kind, operands |-> operands, sharding |-> sharding,
     factorSizes |-> factorSizes]

ArgNode(sharding) == OpNode("arg", <<>>, sharding, <<>>)

\* The function of an input: [nodes, body, funcResultShardings].
BuildFunction(in) ==
    LET shape == in.shape
        a0 == IF shape.otherMesh THEN [in.a0 EXCEPT !.meshName = "mesh2"]
              ELSE in.a0
        argNodes == IF in.kind = "dot" THEN <<ArgNode(a0), ArgNode(in.a1)>>
                    ELSE <<ArgNode(a0)>>
        numArgs == Len(argNodes)
        producerNodes ==
            IF shape.producer
            THEN <<OpNode("negate", <<numArgs>>, argNodes[numArgs].sharding,
                          factorSizesOf("negate", FALSE))>>
            ELSE <<>>
        lastOperand == numArgs + Len(producerNodes)
        main == lastOperand + 1
        mainNode ==
            OpNode(in.kind,
                   IF in.kind = "dot" THEN <<1, lastOperand>> ELSE <<lastOperand>>,
                   in.r, factorSizesOf(in.kind, shape.smallFactor))
        userNodes ==
            IF shape.user = "none" THEN <<>>
            ELSE IF shape.user = "operand"
            THEN <<OpNode("negate", <<lastOperand>>,
                          argNodes[numArgs].sharding,
                          IF in.kind = "dot" THEN <<32, 16>>
                          ELSE factorSizesOf("negate", shape.smallFactor))>>
            ELSE <<OpNode("negate", <<main>>,
                          IF shape.user = "same" THEN in.r ELSE Replicated,
                          factorSizesOf("negate", FALSE))>>
        returned == IF shape.user = "operand" THEN main
                    ELSE main + Len(userNodes)
        returnNode == OpNode("return", <<returned>>, NullSharding, <<>>)
        all == argNodes \o producerNodes \o <<mainNode>> \o userNodes
                   \o <<returnNode>>
    IN [nodes |-> all,
        body |-> [i \in 1..(Len(all) - numArgs) |-> numArgs + i],
        funcResultShardings |->
            <<IF shape.funcResult = "same" THEN in.r
              ELSE IF shape.funcResult = "arg" THEN a0
              ELSE NullSharding>>]

unvisited(ops) == [op \in rangeOf(ops) |-> "unvisited"]

NoProjection == [operands |-> <<>>, results |-> <<>>]

\* The state after construction of the pass on the function of input `in`.
startOn(in) ==
    LET f == BuildFunction(in) IN
    /\ nodes = f.nodes
    /\ body = f.body
    /\ funcResultShardings = f.funcResultShardings
    /\ pc = "walk"
    /\ run = 1
    /\ todo = f.body
    /\ cur = 0
    /\ projection = NoProjection
    /\ factorAxesCandidates = {}
    /\ bestFactorAxes = EmptyFactorAxesPair
    /\ factorAxisRefs = <<>>
    /\ opState = unvisited(f.body)
    /\ before = [nodes |-> f.nodes, body |-> f.body]
    /\ last = 0
    /\ initialCandidates = {}
    /\ commits = 0
    /\ resolvedOf = [op \in {} |-> <<>>]
    /\ firstRun = [nodes |-> <<>>, body |-> <<>>]

\* The pass starts on a function of one of the shapes whose main operation
\* carries at most `maxAxes` axis references on its tensors.
startWithin(maxAxes) ==
    \E kind \in Kinds :
      \E a0 \in shardingsUpTo(maxAxes) :
        \E a1 \in IF kind = "dot"
                   THEN shardingsUpTo(maxAxes - numAxes(a0))
                   ELSE {a0} :
          \E r \in shardingsUpTo(maxAxes - numAxes(a0)
                                  - (IF kind = "dot" THEN numAxes(a1) ELSE 0)) :
            \E shape \in Shapes :
              startOn(Input(kind, a0, a1, r, shape))

\* A function of the lit test, or a function within the bounds.
Init ==
    \/ \E in \in LitTests : startOn(in)
    \/ startWithin(MaxAxes)

(***************************************************************************)
(* InsertExplicitReshardsPass::runOnOperation: the walk over the function *)
(* body.  The walk steps to the next operation before the current one is  *)
(* rewritten, so inserted reshards are not visited in the same run.        *)
(***************************************************************************)
visiting == pc = "walk" /\ todo # <<>>

ruleOf(op) == getOrCreateShardingRule(nodes[op].kind)

meshNameOf(op) ==
    getCommonMeshName(operandShardingsOf(nodes, op), resultShardingsOf(nodes, op))

\* The visit of `op` ends in this step with the function as `g` and the
\* driver state `state`.
finishVisit(op, g, state) ==
    /\ nodes' = g.nodes
    /\ body' = g.body
    /\ opState' = [opState EXCEPT ![op] = state]
    /\ before' = [nodes |-> nodes, body |-> body]
    /\ last' = op
    /\ todo' = Tail(todo)
    /\ pc' = "walk"
    /\ cur' = 0
    /\ UNCHANGED <<funcResultShardings, run, firstRun>>

unchangedFunction == [nodes |-> nodes, body |-> body]

\* if (isa<func::ReturnOp>(op)) { ... return; }
VisitReturn ==
    /\ visiting
    /\ nodes[Head(todo)].kind = "return"
    /\ finishVisit(Head(todo),
                   reshardReturnOperands(nodes, body, Head(todo), 1,
                                         funcResultShardings),
                   "exit-handled")
    /\ UNCHANGED <<resolverVars, resolvedOf>>

\* if (!shardingRule) return;
SkipNoRule ==
    /\ visiting
    /\ nodes[Head(todo)].kind # "return"
    /\ ruleOf(Head(todo)) = NoRule
    /\ finishVisit(Head(todo), unchangedFunction, "no-rule-skip")
    /\ UNCHANGED <<resolverVars, resolvedOf>>

\* if (!meshName.has_value()) return;
SkipNoMesh ==
    /\ visiting
    /\ nodes[Head(todo)].kind # "return"
    /\ ruleOf(Head(todo)) # NoRule
    /\ meshNameOf(Head(todo)) = ""
    /\ finishVisit(Head(todo), unchangedFunction, "no-mesh-skip")
    /\ UNCHANGED <<resolverVars, resolvedOf>>

\* The operation has a rule and a common mesh: its projection is built.
projected(op) ==
    /\ visiting
    /\ op = Head(todo)
    /\ nodes[op].kind # "return"
    /\ ruleOf(op) # NoRule
    /\ meshNameOf(op) # ""

\* if (hasOverflowAxes(shardingProjection)) return;
SkipOverflow ==
    /\ projected(Head(todo))
    /\ hasOverflowAxes(projectionOf(nodes, Head(todo)))
    /\ finishVisit(Head(todo), unchangedFunction, "overflow-skip")
    /\ UNCHANGED <<resolverVars, resolvedOf>>

\* if (hasCompatibleFactorShardings(shardingProjection)) return;
SkipCompatible ==
    /\ projected(Head(todo))
    /\ ~hasOverflowAxes(projectionOf(nodes, Head(todo)))
    /\ hasCompatibleFactorShardings(projectionOf(nodes, Head(todo)))
    /\ finishVisit(Head(todo), unchangedFunction, "already-compatible-skip")
    /\ UNCHANGED <<resolverVars, resolvedOf>>

\* Entry of findCommonAxesUsingMajorityVoteHeuristic for the operation.
StartResolve ==
    /\ projected(Head(todo))
    /\ ~hasOverflowAxes(projectionOf(nodes, Head(todo)))
    /\ ~hasCompatibleFactorShardings(projectionOf(nodes, Head(todo)))
    /\ pc' = "resolve"
    /\ cur' = Head(todo)
    /\ projection' = projectionOf(nodes, Head(todo))
    /\ factorAxesCandidates' =
           findFactorAxesCandidates(projectionOf(nodes, Head(todo)),
                                    ruleOf(Head(todo)).numFactors)
    /\ initialCandidates' = factorAxesCandidates'
    /\ bestFactorAxes' = EmptyFactorAxesPair
    /\ factorAxisRefs' = unshardedFactors(ruleOf(Head(todo)).numFactors)
    /\ commits' = 0
    /\ before' = [nodes |-> nodes, body |-> body]
    /\ UNCHANGED <<nodes, body, funcResultShardings, run, todo, opState, last,
                   resolvedOf, firstRun>>

\* One iteration of `while (!factorAxesCandidates.empty())`.  The candidates
\* are scanned in the order they lie in the vector, which is the iteration
\* order of a hash map permuted by earlier swap-removals: any order.
ResolverRound ==
    /\ pc = "resolve"
    /\ factorAxesCandidates # {}
    /\ \E list \in orderingsOf(factorAxesCandidates) :
          LET round == resolverRound(list, bestFactorAxes, factorAxisRefs) IN
          /\ factorAxisRefs' = round.factorAxisRefs
          /\ factorAxesCandidates' = rangeOf(round.list)
          /\ bestFactorAxes' = round.bestFactorAxes
    /\ commits' = IF FactorAxesPair_empty(bestFactorAxes) \/ commits >= MaxCommits
                  THEN commits
                  ELSE commits + 1
    /\ UNCHANGED <<nodes, body, funcResultShardings, pc, run, todo, cur,
                   projection, opState, before, last, initialCandidates,
                   resolvedOf, firstRun>>

\* The resolver has returned: updateSharding for every factor, then
\* insertExplicitReshards.
ApplyAndInsert ==
    /\ pc = "resolve"
    /\ factorAxesCandidates = {}
    /\ LET update == updateAllFactors(projection, factorAxisRefs, 0, NoUpdates)
           g == insertExplicitReshards(nodes, body, cur, update.projection,
                                       update, ruleOf(cur), meshNameOf(cur))
       IN /\ nodes' = g.nodes
          /\ body' = g.body
    /\ opState' = [opState EXCEPT ![cur] = "resolved-and-rewritten"]
    /\ resolvedOf' = (cur :> factorAxisRefs) @@ resolvedOf
    /\ last' = cur
    /\ todo' = Tail(todo)
    /\ pc' = "walk"
    /\ cur' = 0
    /\ UNCHANGED <<funcResultShardings, run, before, resolverVars, firstRun>>

\* The walk has visited every operation of the body.
EndWalk ==
    /\ pc = "walk"
    /\ todo = <<>>
    /\ pc' = "done"
    /\ firstRun' = IF run = 1 THEN [nodes |-> nodes, body |-> body] ELSE firstRun
    /\ UNCHANGED <<nodes, body, funcResultShardings, run, todo, cur,
                   resolverVars, opState, before, last, resolvedOf>>

\* The pass is run a second time on the function the first run produced.
RunAgain ==
    /\ pc = "done"
    /\ run = 1
    /\ run' = 2
    /\ pc' = "walk"
    /\ todo' = body
    /\ opState' = unvisited(body)
    /\ last' = 0
    /\ before' = [nodes |-> nodes, body |-> body]
    /\ UNCHANGED <<nodes, body, funcResultShardings, cur, resolverVars,
                   resolvedOf, firstRun>>

Next ==
    \/ VisitReturn
    \/ SkipNoRule
    \/ SkipNoMesh
    \/ SkipOverflow
    \/ SkipCompatible
    \/ StartResolve
    \/ ResolverRound
    \/ ApplyAndInsert
    \/ EndWalk
    \/ RunAgain

Spec == Init /\ [][Next]_vars

\* The inputs of the specification with fairness: the functions of the lit
\* test and the functions with fewer than MaxAxes axis references.
FairInit ==
    \/ \E in \in LitTests : startOn(in)
    \/ startWithin(MaxAxes - 1)

\* The pass is run by one thread that executes it to completion: while the
\* loop condition of the resolver holds, the loop body is eventually run.
FairSpec == FairInit /\ [][Next]_vars /\ WF_vars(ResolverRound)

(***************************************************************************)
(* Properties.  The relations below are stated on axis lists directly,    *)
(* independent of the operators of AxesWithTail.                           *)
(***************************************************************************)
\* Some axis of `a` overlaps some axis of `b`.
axesOverlap(a, b) ==
    \E i \in DOMAIN a : \E j \in DOMAIN b : AxisRef_overlaps(a[i], b[j])

\* `a` is a strict prefix of `b`: it matches a leading portion of `b`, its last
\* axis possibly a sub-axis prefix of the corresponding axis of `b`, and the
\* two differ.
isStrictPrefix(a, b) ==
    /\ a # b
    /\ Len(a) <= Len(b)
    /\ \A i \in 1..(Len(a) - 1) : a[i] = b[i]
    /\ Len(a) > 0 => AxisRef_prefixOf(a[Len(a)], b[Len(a)])

\* Every factor has one axis list on all the tensors that reference it.
compatibleEverywhere(proj) ==
    \A t, u \in DOMAIN tensorsOf(proj) :
        \A f \in DOMAIN tensorsOf(proj)[t] \cap DOMAIN tensorsOf(proj)[u] :
            tensorsOf(proj)[t][f].axisRefs = tensorsOf(proj)[u][f].axisRefs

\* Some tensor-factor sharding carries overflow axes.
overflowSomewhere(proj) ==
    \E t \in DOMAIN tensorsOf(proj) :
        \E f \in DOMAIN tensorsOf(proj)[t] :
            tensorsOf(proj)[t][f].overflowAxes # <<>>

\* The meshes the shardings of the operands and the result of `op` are bound to.
meshNamesOf(ns, op) ==
    {ns[v].sharding.meshName :
        v \in {w \in {ns[op].operands[i] : i \in DOMAIN ns[op].operands} \cup {op} :
                  ns[w].sharding # NullSharding}}

\* The reshard nodes of a function.
reshardsOf(ns) == {n \in DOMAIN ns : ns[n].kind = "reshard"}

\* The resolver has returned for the current operation.
resolverDone == pc = "resolve" /\ factorAxesCandidates = {}

\* The visit of operation `last` has just ended; `before` is the function as
\* it was when the visit began.
visited == pc = "walk" /\ last # 0

\* C1: once the driver has applied the resolved assignment of an operation and
\* inserted the reshards, every operand the operation consumes and the result
\* it produces carry, for every factor f they reference, exactly resolved[f]
\* (and no overflow axes).
FactorsShardedAsResolved ==
    \A op \in DOMAIN resolvedOf :
        \A t \in DOMAIN tensorsOf(projectionOf(nodes, op)) :
            \A f \in DOMAIN tensorsOf(projectionOf(nodes, op))[t] :
                /\ tensorsOf(projectionOf(nodes, op))[t][f].axisRefs
                       = resolvedOf[op][f]
                /\ tensorsOf(projectionOf(nodes, op))[t][f].overflowAxes = <<>>

\* An operation was rewritten with a reshard on an operand and one on its
\* result, and some factor is sharded.
FactorsShardedAsResolvedWitness ==
    \E op \in DOMAIN resolvedOf :
        /\ \E i \in DOMAIN nodes[op].operands :
              nodes[op].operands[i] \in reshardsOf(nodes)
        /\ \E n \in reshardsOf(nodes) : nodes[n].operands = <<op>>
        /\ \E f \in DOMAIN resolvedOf[op] : resolvedOf[op][f] # <<>>

\* C2: in the resolver, after every round and at its return, the axis lists of
\* two distinct factors in the output array never overlap.
NoOverlapBetweenFactors ==
    pc = "resolve" =>
        \A f, g \in DOMAIN factorAxisRefs :
            f # g => ~axesOverlap(factorAxisRefs[f], factorAxisRefs[g])

\* The resolver returned with two sharded factors after excluding a candidate
\* that overlaps the axes committed to another factor.
NoOverlapBetweenFactorsWitness ==
    /\ resolverDone
    /\ \E f, g \in DOMAIN factorAxisRefs :
          f # g /\ factorAxisRefs[f] # <<>> /\ factorAxisRefs[g] # <<>>
    /\ \E c \in initialCandidates :
          \E g \in DOMAIN factorAxisRefs :
              /\ g # c.factorAxes.factorIndex
              /\ axesOverlap(c.factorAxes.axes, factorAxisRefs[g])

\* C3: an operation on which every factor has the same axis list on all the
\* tensors referencing it is left as it is: no reshard is inserted, no operand
\* rewired, no annotation changed, and it is not handed to the resolver.
CompatibleOperationUnchanged ==
    (/\ visited
     /\ getOrCreateShardingRule(before.nodes[last].kind) # NoRule
     /\ compatibleEverywhere(projectionOf(before.nodes, last)))
    => /\ nodes = before.nodes
       /\ body = before.body
       /\ opState[last] # "resolved-and-rewritten"

\* A dot whose factors are sharded, compatibly, has been visited.
CompatibleOperationUnchangedWitness ==
    /\ visited
    /\ before.nodes[last].kind = "dot"
    /\ opState[last] = "already-compatible-skip"
    /\ \E t \in DOMAIN tensorsOf(projectionOf(before.nodes, last)) :
          \E f \in DOMAIN tensorsOf(projectionOf(before.nodes, last))[t] :
              tensorsOf(projectionOf(before.nodes, last))[t][f].axisRefs # <<>>
    /\ nodes = before.nodes

\* C4: the resolver loop terminates: from every state of the loop, the first
\* round included, it reaches the empty candidate list.
ResolverTerminates == (pc = "resolve") ~> resolverDone

\* The loop has ended after a first round and at least two commit rounds.
ResolverTerminatesWitness == resolverDone /\ commits >= 2

PrefixMonotonicity ==
    pc = "resolve" =>
        /\ \A c \in factorAxesCandidates :
              factorAxisRefs[c.factorAxes.factorIndex] # <<>> =>
                  isStrictPrefix(factorAxisRefs[c.factorAxes.factorIndex],
                                 c.factorAxes.axes)
        /\ (/\ ~FactorAxesPair_empty(bestFactorAxes)
            /\ factorAxisRefs[bestFactorAxes.factorIndex] # <<>>)
           => isStrictPrefix(factorAxisRefs[bestFactorAxes.factorIndex],
                             bestFactorAxes.axes)

\* A committed factor has an extension listed that is picked for the next
\* commit.
PrefixMonotonicityWitness ==
    /\ pc = "resolve"
    /\ ~FactorAxesPair_empty(bestFactorAxes)
    /\ factorAxisRefs[bestFactorAxes.factorIndex] # <<>>
    /\ \E c \in factorAxesCandidates : c.factorAxes = bestFactorAxes

\* C7: a second run of the pass on the function the first run produced inserts
\* no reshard and changes no annotation; no operation reaches the resolver.
SecondRunChangesNothing ==
    run = 2 =>
        /\ nodes = firstRun.nodes
        /\ body = firstRun.body
        /\ \A op \in DOMAIN opState : opState[op] # "resolved-and-rewritten"

\* The second run has ended on a function in which the first run inserted a
\* reshard for an operation and one for the return.
SecondRunChangesNothingWitness ==
    /\ run = 2
    /\ pc = "done"
    /\ resolvedOf # <<>>
    /\ \E ret \in DOMAIN nodes :
          /\ nodes[ret].kind = "return"
          /\ nodes[ret].operands[1] \in reshardsOf(nodes)
    /\ Cardinality(reshardsOf(nodes)) >= 2

\* C8: an operation skipped by policy (no sharding rule, no common mesh, or
\* overflow axes in its projection) is left as it is, and the walk goes on.
PolicySkipUnchanged ==
    (/\ visited
     /\ before.nodes[last].kind # "return"
     /\ \/ getOrCreateShardingRule(before.nodes[last].kind) = NoRule
        \/ Cardinality(meshNamesOf(before.nodes, last)) # 1
        \/ overflowSomewhere(projectionOf(before.nodes, last)))
    => /\ nodes = before.nodes
       /\ body = before.body

\* An incompatible dot whose result carries overflow axes has been visited.
PolicySkipUnchangedWitness ==
    /\ visited
    /\ before.nodes[last].kind = "dot"
    /\ opState[last] = "overflow-skip"
    /\ ~compatibleEverywhere(projectionOf(before.nodes, last))
    /\ \E f \in DOMAIN projectionOf(before.nodes, last).results[1] :
          projectionOf(before.nodes, last).results[1][f].overflowAxes # <<>>
    /\ nodes = before.nodes

reshardedTensors(proj, assignment) ==
    {t \in DOMAIN tensorsOf(proj) :
        \E f \in DOMAIN tensorsOf(proj)[t] :
            tensorsOf(proj)[t][f].axisRefs # assignment[f]}

\* The assignments of one axis list per factor with no overlap between
\* distinct factors.
consistentAssignments(numFactors) ==
    {alt \in [0..(numFactors - 1) -> DimShardings] :
        \A f, g \in DOMAIN alt : f # g => ~axesOverlap(alt[f], alt[g])}

\* C10 as stated: no consistent assignment reshards fewer operand and result
\* tensors of the operation than the resolved one.
ResolvedReshardsFewest ==
    resolverDone =>
        \A alt \in consistentAssignments(ruleOf(cur).numFactors) :
            Cardinality(reshardedTensors(projection, alt))
                >= Cardinality(reshardedTensors(projection, factorAxisRefs))

\* C10, amended: the resolved assignment is maximal among the discovered
\* candidates: a candidate that strictly extends the resolved axes of its
\* factor overlaps the resolved axes of another factor.
ResolvedIsMaximal ==
    resolverDone =>
        \A c \in initialCandidates :
            isStrictPrefix(factorAxisRefs[c.factorAxes.factorIndex],
                           c.factorAxes.axes)
            => \E g \in DOMAIN factorAxisRefs \ {c.factorAxes.factorIndex} :
                  axesOverlap(c.factorAxes.axes, factorAxisRefs[g])

\* The resolver returned an assignment that leaves out a candidate because of
\* an overlap, where another consistent assignment reshards fewer tensors.
ResolvedIsMaximalWitness ==
    /\ resolverDone
    /\ \E c \in initialCandidates :
          isStrictPrefix(factorAxisRefs[c.factorAxes.factorIndex],
                         c.factorAxes.axes)
    /\ \E alt \in consistentAssignments(ruleOf(cur).numFactors) :
          Cardinality(reshardedTensors(projection, alt))
              < Cardinality(reshardedTensors(projection, factorAxisRefs))

\* The visit of a dot with factor sizes {i=8, j=16, k=32} has just ended; when
\* it began the dot consumed values sharded `a0` and `a1` and its result was
\* sharded `r`.
dotVisitedOn(a0, a1, r) ==
    /\ visited
    /\ before.nodes[last].kind = "dot"
    /\ before.nodes[last].factorSizes = <<8, 16, 32>>
    /\ operandShardingsOf(before.nodes, last) = <<a0, a1>>
    /\ getSharding(before.nodes, last) = r

\* The reshard nodes inserted by the visit that has just ended.
insertedReshards == reshardsOf(nodes) \ DOMAIN before.nodes

\* Operand slot `i` of operation `last` is as it was before the visit.
operandKept(i) == nodes[last].operands[i] = before.nodes[last].operands[i]

\* Operand slot `i` of operation `last` now consumes an inserted reshard of the
\* value it consumed before, sharded `sharding`.
operandReshardedTo(i, sharding) ==
    /\ nodes[last].operands[i] \in insertedReshards
    /\ nodes[nodes[last].operands[i]]
           = ReshardNode(before.nodes[last].operands[i], sharding)

\* The inserted reshards that consume the result of operation `last`.
resultReshards == {n \in insertedReshards : nodes[n].operands = <<last>>}

\* C11 as stated: on operands [{x},{y}] and [{y},{x}] and result [{x},{}], both
\* operands are left without a reshard, the dot's result sharding becomes
\* [{},{}], and exactly one reshard, to [{x},{}], is inserted after the dot.
OutIScenarioResultUnsharded ==
    dotVisitedOn(Sharding(<<AxisX>>, <<AxisY>>), Sharding(<<AxisY>>, <<AxisX>>),
                 Sharding(<<AxisX>>, <<>>))
    => /\ operandKept(1)
       /\ operandKept(2)
       /\ getSharding(nodes, last) = Replicated
       /\ Cardinality(insertedReshards) = 1
       /\ \A n \in insertedReshards :
             nodes[n] = ReshardNode(last, Sharding(<<AxisX>>, <<>>))

\* C11, amended: on operands [{x},{y}] and [{y},{x}] and result [{x},{}], the
\* majority keeps x on factor i: operand 0 is left without a reshard, operand 1
\* is resharded to [{y},{}] before the dot, the dot's result sharding stays
\* [{x},{}], and that reshard is the only one inserted.
OutIScenarioReshardsOperand1 ==
    dotVisitedOn(Sharding(<<AxisX>>, <<AxisY>>), Sharding(<<AxisY>>, <<AxisX>>),
                 Sharding(<<AxisX>>, <<>>))
    => /\ operandKept(1)
       /\ operandReshardedTo(2, Sharding(<<AxisY>>, <<>>))
       /\ getSharding(nodes, last) = Sharding(<<AxisX>>, <<>>)
       /\ Cardinality(insertedReshards) = 1
       /\ resultReshards = {}

\* The dot of the scenario has been visited and rewritten by the driver.
OutIScenarioReshardsOperand1Witness ==
    /\ dotVisitedOn(Sharding(<<AxisX>>, <<AxisY>>),
                    Sharding(<<AxisY>>, <<AxisX>>), Sharding(<<AxisX>>, <<>>))
    /\ opState[last] = "resolved-and-rewritten"
    /\ resolvedOf[last][0] = <<AxisX>>
    /\ resolvedOf[last][1] = <<>>
    /\ resolvedOf[last][2] = <<AxisY>>

\* C12: on operands [{x:(1)2},{y}] and [{y},{}] and result [{},{x:(2)2}],
\* operand 0 is resharded to [{},{y}] before the dot, operand 1 is not
\* resharded, the dot's result sharding becomes [{},{}], and one reshard to
\* [{},{x:(2)2}] is inserted after the dot: two reshards in all, factors i and
\* j unsharded.
SubaxisScenarioFactorsUnsharded ==
    dotVisitedOn(Sharding(<<AxisX1>>, <<AxisY>>), Sharding(<<AxisY>>, <<>>),
                 Sharding(<<>>, <<AxisX2>>))
    => /\ operandReshardedTo(1, Sharding(<<>>, <<AxisY>>))
       /\ operandKept(2)
       /\ getSharding(nodes, last) = Replicated
       /\ Cardinality(insertedReshards) = 2
       /\ \E n \in resultReshards :
             nodes[n].sharding = Sharding(<<>>, <<AxisX2>>)
       /\ last \in DOMAIN resolvedOf
       /\ resolvedOf[last][0] = <<>>
       /\ resolvedOf[last][1] = <<>>

\* A sharding that assigns no axis to any dimension; the absent sharding does.
carriesNoAxis(sharding) ==
    \/ sharding = NullSharding
    \/ \A d \in DOMAIN sharding.dims : sharding.dims[d] = <<>>

rewritten == visited /\ opState[last] = "resolved-and-rewritten"

\* The sharding a tensor of `last` takes under the resolved assignment: every
\* dimension carries the resolved axes of the factor it maps to.
shardingUnderResolved(mapping) ==
    [meshName |-> getSharding(before.nodes, last).meshName,
     dims |-> [d \in DOMAIN mapping |-> resolvedOf[last][mapping[d]]]]

\* The operand slots <<user, slot>> that consumed value `v` before the visit.
usesBefore(v) ==
    {u \in (DOMAIN before.nodes) \X {1, 2} :
        /\ u[2] \in DOMAIN before.nodes[u[1]].operands
        /\ before.nodes[u[1]].operands[u[2]] = v}

\* C14: a result of the rewritten operation whose sharding changed under the
\* resolved assignment gets exactly one reshard, immediately after the
\* operation, that consumes the result and carries its sharding of before;
\* every consumer of before now consumes the reshard, which is the only direct
\* user left; the result's annotation is the sharding under the resolved
\* assignment.  An unchanged result gets no reshard.
ChangedResultReshardedAfter ==
    rewritten =>
        LET old == getSharding(before.nodes, last)
            new == shardingUnderResolved(
                       getOrCreateShardingRule(before.nodes[last].kind)
                           .resultMappings[1])
        IN IF old # new
           THEN /\ Cardinality(resultReshards) = 1
                /\ \A n \in resultReshards :
                      /\ nodes[n] = ReshardNode(last, old)
                      /\ positionOf(body, n) = positionOf(body, last) + 1
                      /\ \A u \in usesBefore(last) :
                            nodes[u[1]].operands[u[2]] = n
                      /\ \A v \in DOMAIN nodes :
                            (\E k \in DOMAIN nodes[v].operands :
                                nodes[v].operands[k] = last) => v = n
                /\ getSharding(nodes, last) = new
           ELSE /\ resultReshards = {}
                /\ getSharding(nodes, last) = old
                /\ \A u \in usesBefore(last) :
                      nodes[u[1]].operands[u[2]] = last

\* An operation whose result had a user other than the return has been
\* rewritten with a reshard after it.
ChangedResultReshardedAfterWitness ==
    /\ rewritten
    /\ resultReshards # {}
    /\ \E u \in usesBefore(last) : before.nodes[u[1]].kind = "negate"
    /\ getSharding(nodes, last) # getSharding(before.nodes, last)

\* C15: an operand slot of the rewritten operation whose sharding changed under
\* the resolved assignment gets exactly one reshard that consumes the value of
\* before and carries the sharding under the resolved assignment; the reshards
\* lie in operand-index order between the operation's predecessor of before and
\* the operation; only that slot is rewired.  An unchanged slot gets no reshard,
\* and the other users of the operand values keep consuming them.
ChangedOperandsReshardedBefore ==
    rewritten =>
        LET rule == getOrCreateShardingRule(before.nodes[last].kind)
            slots == DOMAIN before.nodes[last].operands
            changed ==
                {i \in slots :
                    getSharding(before.nodes, before.nodes[last].operands[i])
                        # shardingUnderResolved(rule.operandMappings[i])}
            operandReshards == insertedReshards \ resultReshards
        IN /\ \A i \in changed :
                 operandReshardedTo(
                     i, shardingUnderResolved(rule.operandMappings[i]))
           /\ \A i \in slots \ changed : operandKept(i)
           /\ operandReshards = {nodes[last].operands[i] : i \in changed}
           /\ Cardinality(operandReshards) = Cardinality(changed)
           /\ \A i, j \in changed :
                 i < j => positionOf(body, nodes[last].operands[i])
                              < positionOf(body, nodes[last].operands[j])
           /\ \A p \in DOMAIN body :
                 (positionOf(before.body, last) <= p
                     /\ p < positionOf(body, last))
                 => body[p] \in operandReshards
           /\ positionOf(body, last)
                  = positionOf(before.body, last) + Cardinality(changed)
           /\ \A v \in DOMAIN before.nodes \ {last} :
                 \A k \in DOMAIN before.nodes[v].operands :
                     before.nodes[v].operands[k] # last
                     => nodes[v].operands[k] = before.nodes[v].operands[k]

\* A dot has been rewritten with a reshard on each of its two operands, one of
\* which has another user.
ChangedOperandsReshardedBeforeWitness ==
    /\ rewritten
    /\ \A i \in DOMAIN nodes[last].operands :
          nodes[last].operands[i] \in insertedReshards
    /\ Len(nodes[last].operands) = 2
    /\ \E u \in usesBefore(before.nodes[last].operands[2]) : u[1] # last

\* C16: the visit of an operation changes no annotation but that of the
\* operation's own result: function arguments and the results of all other
\* operations keep their shardings, and every other operation consumes on each
\* operand slot a value sharded as the value it consumed before, be it the same
\* value or an inserted reshard.
VisitIsLocal ==
    visited =>
        \A v \in DOMAIN before.nodes \ {last} :
            /\ nodes[v].kind = before.nodes[v].kind
            /\ getSharding(nodes, v) = getSharding(before.nodes, v)
            /\ DOMAIN nodes[v].operands = DOMAIN before.nodes[v].operands
            /\ \A k \in DOMAIN before.nodes[v].operands :
                  getSharding(nodes, nodes[v].operands[k])
                      = getSharding(before.nodes, before.nodes[v].operands[k])

\* An operation has been rewritten with a reshard before it and one after it,
\* and a negate that used its result now consumes the reshard.
VisitIsLocalWitness ==
    /\ rewritten
    /\ insertedReshards \ resultReshards # {}
    /\ \E u \in usesBefore(last) :
          /\ before.nodes[u[1]].kind = "negate"
          /\ nodes[u[1]].operands[u[2]] \in resultReshards

\* Factor `f` does not have one axis list on all the tensors of projection
\* `proj` that reference it.
factorIncompatible(proj, f) ==
    \E t, u \in DOMAIN tensorsOf(proj) :
        /\ f \in DOMAIN tensorsOf(proj)[t] \cap DOMAIN tensorsOf(proj)[u]
        /\ tensorsOf(proj)[t][f].axisRefs # tensorsOf(proj)[u][f].axisRefs

\* C17: a factor whose axis assignment is not identical on all the tensors of
\* the operation that reference it is resolved to unsharded: after the rewrite
\* no tensor of the operation carries axes on it.
IncompatibleFactorsUnsharded ==
    rewritten =>
        \A f \in DOMAIN resolvedOf[last] :
            factorIncompatible(projectionOf(before.nodes, last), f)
            => /\ resolvedOf[last][f] = <<>>
               /\ \A t \in DOMAIN tensorsOf(projectionOf(nodes, last)) :
                     f \in DOMAIN tensorsOf(projectionOf(nodes, last))[t]
                     => tensorsOf(projectionOf(nodes, last))[t][f].axisRefs = <<>>

\* The product of the sizes of the axes of an axis list; 1 for the empty list.
RECURSIVE axesSize(_)
axesSize(a) ==
    IF a = <<>> THEN 1 ELSE AxisRef_getSize(Head(a)) * axesSize(Tail(a))

\* Candidate `c` is above candidate `d` in the lexicographic order of
\* occurrence count, sharding size, factor index and axis list.
ranksAbove(c, d) ==
    \/ c.count > d.count
    \/ /\ c.count = d.count
       /\ c.shardingSize > d.shardingSize
    \/ /\ c.count = d.count
       /\ c.shardingSize = d.shardingSize
       /\ c.factorAxes.factorIndex > d.factorAxes.factorIndex
    \/ /\ c.count = d.count
       /\ c.shardingSize = d.shardingSize
       /\ c.factorAxes.factorIndex = d.factorAxes.factorIndex
       /\ AxesWithTail_less(d.factorAxes.axes, c.factorAxes.axes)

\* C18: every resolver round leaves each surviving candidate with a sharding
\* size equal to the size of its axes divided, without remainder, by the size
\* of the axes committed for its factor (1 when none are), and picks as the
\* next best the one survivor that is above all others in the order of count,
\* sharding size, factor index and axis list.
RoundPicksGreatestSurvivor ==
    [][(pc = "resolve" /\ pc' = "resolve") =>
          /\ \A c \in factorAxesCandidates' :
                c.shardingSize
                    * axesSize(factorAxisRefs'[c.factorAxes.factorIndex])
                    = axesSize(c.factorAxes.axes)
          /\ IF factorAxesCandidates' = {}
             THEN FactorAxesPair_empty(bestFactorAxes')
             ELSE \E c \in factorAxesCandidates' :
                     /\ c.factorAxes = bestFactorAxes'
                     /\ \A d \in factorAxesCandidates' \ {c} : ranksAbove(c, d)]_vars

\* A round has picked the next best among several survivors, one of which
\* extends the axes committed for its factor and had its sharding size
\* recomputed.
RoundPicksGreatestSurvivorWitness ==
    /\ pc = "resolve"
    /\ ~FactorAxesPair_empty(bestFactorAxes)
    /\ Cardinality(factorAxesCandidates) >= 2
    /\ \E c \in factorAxesCandidates :
          /\ factorAxisRefs[c.factorAxes.factorIndex] # <<>>
          /\ c.shardingSize < axesSize(c.factorAxes.axes)

\* The axis lists that the tensors of projection `proj` carry for factor `f`,
\* as a function of the tensors that reference `f`.
assignmentsOf(proj, f) ==
    [t \in {u \in DOMAIN tensorsOf(proj) : f \in DOMAIN tensorsOf(proj)[u]} |->
        tensorsOf(proj)[t][f].axisRefs]

\* C19: every candidate (f, A) that findFactorAxesCandidates returns has as its
\* count the number of tensors whose axis list for f is A or has A as a strict
\* prefix, and as its sharding size the product of the sizes of the axes of A;
\* no pair (f, A) is returned twice.
CandidateCountsTensors ==
    pc = "resolve" =>
        /\ \A c \in initialCandidates :
              LET f == c.factorAxes.factorIndex
                  A == c.factorAxes.axes
                  assigned == assignmentsOf(projection, f)
              IN /\ c.count =
                        Cardinality({t \in DOMAIN assigned :
                                        \/ assigned[t] = A
                                        \/ isStrictPrefix(A, assigned[t])})
                 /\ c.shardingSize = axesSize(A)
        /\ \A c, d \in initialCandidates : c.factorAxes = d.factorAxes => c = d

\* The resolver was entered with a candidate that one tensor carries as its
\* whole axis list and another tensor strictly extends.
CandidateCountsTensorsWitness ==
    /\ pc = "resolve"
    /\ \E c \in initialCandidates :
          LET assigned == assignmentsOf(projection, c.factorAxes.factorIndex)
          IN /\ c.count >= 2
             /\ \E t \in DOMAIN assigned : assigned[t] = c.factorAxes.axes
             /\ \E t \in DOMAIN assigned :
                   isStrictPrefix(c.factorAxes.axes, assigned[t])

\* The (factor, axes) pairs of the candidates the resolver was entered with.
candidatePairs == {c.factorAxes : c \in initialCandidates}

\* C20 as stated: the candidates for factor f are exactly the non-empty axis
\* lists that some tensor carries for f (a strict prefix is a candidate only if
\* it is itself the axis list of some tensor).
CandidatesAreAssignments ==
    pc = "resolve" =>
        candidatePairs =
            UNION {{[factorIndex |-> f, axes |-> assignmentsOf(projection, f)[t]] :
                       t \in {u \in DOMAIN assignmentsOf(projection, f) :
                                 assignmentsOf(projection, f)[u] # <<>>}} :
                   f \in DOMAIN factorAxisRefs}

\* C20, amended: the candidates for factor f are exactly the non-empty leading
\* parts of the axis lists that the tensors carry for f: each whole list and
\* every list left after dropping axes from its end, whether or not a tensor
\* carries that shorter list.
CandidatesAreLeadingParts ==
    pc = "resolve" =>
        candidatePairs =
            UNION {UNION {{[factorIndex |-> f,
                            axes |-> SubSeq(assignmentsOf(projection, f)[t], 1, n)] :
                              n \in 1..Len(assignmentsOf(projection, f)[t])} :
                          t \in DOMAIN assignmentsOf(projection, f)} :
                   f \in DOMAIN factorAxisRefs}

\* The resolver was entered with a candidate that no tensor carries as its
\* axis list for the factor.
CandidatesAreLeadingPartsWitness ==
    /\ pc = "resolve"
    /\ \E c \in initialCandidates :
          \A t \in DOMAIN assignmentsOf(projection, c.factorAxes.factorIndex) :
              assignmentsOf(projection, c.factorAxes.factorIndex)[t]
                  # c.factorAxes.axes

\* Axis reference `a` is a strict sub-axis prefix of `b`: it addresses a proper
\* leading part of `b`.
subAxisStrictPrefix(a, b) ==
    /\ a.name = b.name
    /\ a.pre = b.pre
    /\ a.size < b.size

\* The pairs <<A, B>> of axis lists on which the pass evaluates
\* A.strictPrefixOf(B) for the operation in the resolver: the axis lists of the
\* candidates discovered for one factor.
strictPrefixInputs ==
    {<<c.factorAxes.axes, d.factorAxes.axes>> :
        <<c, d>> \in {p \in initialCandidates \X initialCandidates :
                        p[1].factorAxes.factorIndex = p[2].factorAxes.factorIndex}}

\* C21 as stated: for non-empty A, A.strictPrefixOf(B) is true exactly when A
\* is shorter than B and every axis of A equals the axis of B at its position,
\* or A and B are equally long, agree on all axes but the last, and the tail of
\* A is a strict sub-axis prefix of the tail of B; A is never a strict prefix
\* of itself.
StrictPrefixMatchesWholeAxes ==
    pc = "resolve" =>
        \A p \in strictPrefixInputs :
            LET A == p[1]
                B == p[2]
            IN /\ strictPrefixOf(A, B) <=>
                      \/ /\ Len(A) < Len(B)
                         /\ \A i \in 1..Len(A) : A[i] = B[i]
                      \/ /\ Len(A) = Len(B)
                         /\ \A i \in 1..(Len(A) - 1) : A[i] = B[i]
                         /\ subAxisStrictPrefix(A[Len(A)], B[Len(B)])
               /\ ~strictPrefixOf(A, A)

\* C21, amended: for non-empty A, A.strictPrefixOf(B) is true exactly when A is
\* no longer than B, agrees with B on all its axes but the last, and its tail
\* is a strict sub-axis prefix of the axis of B at the tail's position or, when
\* A is shorter than B, equal to it; A is never a strict prefix of itself.
StrictPrefixAllowsSubAxisTail ==
    pc = "resolve" =>
        \A p \in strictPrefixInputs :
            LET A == p[1]
                B == p[2]
            IN /\ strictPrefixOf(A, B) <=>
                      /\ Len(A) <= Len(B)
                      /\ \A i \in 1..(Len(A) - 1) : A[i] = B[i]
                      /\ \/ subAxisStrictPrefix(A[Len(A)], B[Len(A)])
                         \/ Len(A) < Len(B) /\ A[Len(A)] = B[Len(A)]
               /\ ~strictPrefixOf(A, A)

\* The resolver was entered with two candidates for one factor, the shorter
\* ending in a strict sub-axis prefix of the axis the longer has at that
\* position, and the shorter is found a strict prefix of the longer.
StrictPrefixAllowsSubAxisTailWitness ==
    /\ pc = "resolve"
    /\ \E p \in strictPrefixInputs :
          /\ Len(p[1]) < Len(p[2])
          /\ subAxisStrictPrefix(p[1][Len(p[1])], p[2][Len(p[1])])
          /\ strictPrefixOf(p[1], p[2])

\* C22: the array the resolver fills has one entry per factor of the rule, and
\* each entry is empty or the axis list of a candidate discovered for its
\* factor, hence a leading part of the axis list some tensor carries for that
\* factor; a factor without a candidate stays empty, and no factor receives an
\* axis that no tensor had on it.
ResolvedFromCandidates ==
    pc = "resolve" =>
        /\ DOMAIN factorAxisRefs = 0..(ruleOf(cur).numFactors - 1)
        /\ \A f \in DOMAIN factorAxisRefs :
              LET resolved == factorAxisRefs[f]
                  assigned == assignmentsOf(projection, f)
              IN /\ resolved # <<>> =>
                        /\ [factorIndex |-> f, axes |-> resolved] \in candidatePairs
                        /\ \E t \in DOMAIN assigned :
                              /\ Len(resolved) <= Len(assigned[t])
                              /\ resolved = SubSeq(assigned[t], 1, Len(resolved))
                 /\ (\A c \in initialCandidates : c.factorAxes.factorIndex # f)
                        => resolved = <<>>
                 /\ \A i \in DOMAIN resolved :
                        \E t \in DOMAIN assigned :
                            \E j \in DOMAIN assigned[t] : assigned[t][j] = resolved[i]

\* The resolver has returned with a factor resolved to a leading part that no
\* tensor carries as its whole axis list, while another factor, without any
\* candidate, is left empty.
ResolvedFromCandidatesWitness ==
    /\ resolverDone
    /\ \E f \in DOMAIN factorAxisRefs :
          /\ factorAxisRefs[f] # <<>>
          /\ \A t \in DOMAIN assignmentsOf(projection, f) :
                assignmentsOf(projection, f)[t] # factorAxisRefs[f]
    /\ \E g \in DOMAIN factorAxisRefs :
          /\ factorAxisRefs[g] = <<>>
          /\ \A c \in initialCandidates : c.factorAxes.factorIndex # g

\* C23: a round that begins with a selected best writes its axes into the entry
\* of its factor, changes no other entry, and removes it from the candidate
\* list; a round without a best changes no entry.  The resolver returns only
\* when no selected best is left uncommitted, and what it returns is the array
\* so filled: each entry is the last candidate selected for its factor.
SelectedBestIsCommitted ==
    [][/\ (pc = "resolve" /\ pc' = "resolve") =>
              IF FactorAxesPair_empty(bestFactorAxes)
              THEN factorAxisRefs' = factorAxisRefs
              ELSE /\ \E c \in factorAxesCandidates :
                         c.factorAxes = bestFactorAxes
                   /\ \A c \in factorAxesCandidates' :
                         c.factorAxes # bestFactorAxes
                   /\ DOMAIN factorAxisRefs' = DOMAIN factorAxisRefs
                   /\ \A f \in DOMAIN factorAxisRefs :
                         factorAxisRefs'[f] =
                             IF f = bestFactorAxes.factorIndex
                             THEN bestFactorAxes.axes
                             ELSE factorAxisRefs[f]
       /\ (pc = "resolve" /\ pc' # "resolve") =>
              /\ FactorAxesPair_empty(bestFactorAxes)
              /\ factorAxesCandidates = {}
              /\ resolvedOf'[cur] = factorAxisRefs]_vars

\* The resolver has returned after committing some factor more than once: the
\* commit rounds outnumber the factors that are sharded in the result.
SelectedBestIsCommittedWitness ==
    /\ resolverDone
    /\ FactorAxesPair_empty(bestFactorAxes)
    /\ commits < MaxCommits
    /\ commits > Cardinality({f \in DOMAIN factorAxisRefs :
                                 factorAxisRefs[f] # <<>>})

\* C24: an operation that passes the fast path (no overflow axes, and some
\* factor with unequal axis lists on two tensors) has, under the resolved
\* assignment, a changed factor sharding on at least one operand or result, and
\* at least one reshard is inserted for it.
IncompatibleOperationIsResharded ==
    rewritten =>
        /\ ~overflowSomewhere(projectionOf(before.nodes, last))
        /\ ~compatibleEverywhere(projectionOf(before.nodes, last))
        /\ \E t \in DOMAIN tensorsOf(projectionOf(before.nodes, last)) :
              \E f \in DOMAIN tensorsOf(projectionOf(before.nodes, last))[t] :
                  tensorsOf(projectionOf(before.nodes, last))[t][f].axisRefs
                      # resolvedOf[last][f]
        /\ insertedReshards # {}
        /\ \A n \in insertedReshards :
              \/ n \in resultReshards
              \/ \E i \in DOMAIN nodes[last].operands : nodes[last].operands[i] = n

\* An operation has passed the fast path and been rewritten with a single
\* reshard.
IncompatibleOperationIsReshardedWitness ==
    /\ rewritten
    /\ Cardinality(insertedReshards) = 1
    /\ ~compatibleEverywhere(projectionOf(before.nodes, last))
    /\ compatibleEverywhere(projectionOf(nodes, last))

\* The operations the driver has processed and left compatible in this run.
leftCompatible ==
    {op \in DOMAIN opState :
        opState[op] \in {"already-compatible-skip", "resolved-and-rewritten"}}

\* C25: in the single pass, an operation the driver has left compatible stays
\* compatible while the later operations and the return are processed; when
\* the pass ends every operation with a rule, one common mesh and no overflow
\* axes is compatible; the operations still to visit are distinct and
\* unvisited, and no inserted reshard is among the operations the walk visits.
SinglePassLeavesCompatible ==
    run = 1 =>
        /\ \A op \in leftCompatible :
              /\ compatibleEverywhere(projectionOf(nodes, op))
              /\ ~overflowSomewhere(projectionOf(nodes, op))
        /\ pc = "done" =>
              \A op \in DOMAIN nodes :
                  (/\ getOrCreateShardingRule(nodes[op].kind) # NoRule
                   /\ Cardinality(meshNamesOf(nodes, op)) = 1
                   /\ ~overflowSomewhere(projectionOf(nodes, op)))
                  => compatibleEverywhere(projectionOf(nodes, op))
        /\ \A i, j \in DOMAIN todo : i # j => todo[i] # todo[j]
        /\ \A i \in DOMAIN todo :
              /\ todo[i] \in DOMAIN opState
              /\ opState[todo[i]] = "unvisited"
        /\ pc = "done" => \A op \in DOMAIN opState : opState[op] # "unvisited"
        /\ reshardsOf(nodes) \cap DOMAIN opState = {}

\* The single pass has ended on a function in which an operation left
\* compatible feeds a later operation that was rewritten with a reshard on that
\* operand, and the return was resharded as well.
SinglePassLeavesCompatibleWitness ==
    /\ run = 1
    /\ pc = "done"
    /\ \E p \in leftCompatible :
          \E op \in DOMAIN resolvedOf :
              \E i \in DOMAIN nodes[op].operands :
                  /\ nodes[op].operands[i] \in reshardsOf(nodes)
                  /\ nodes[nodes[op].operands[i]].operands = <<p>>
    /\ Cardinality(reshardsOf(nodes)) >= 2

====
